---- MODULE Spec2Model ----
(***************************************************************************)
(* Decision pipeline of the financial-package intake: quality gate         *)
(* (scorer.py, gate_rules.py, router.py), document classifier              *)
(* (classify.py), cross-document validator (schema_validator.py,           *)
(* period_detector.py) and the orchestrator (run_pipeline.py).             *)
(*                                                                         *)
(* Strings are modelled as sequences of tokens.  A token is a run of       *)
(* characters of one kind: a word (letters), a digit run, or a single      *)
(* punctuation character.  The string a sequence stands for is the         *)
(* concatenation of its tokens.  Digit runs are maximal: no two digit      *)
(* tokens are adjacent.  A regular expression of the source is modelled    *)
(* by a matcher over tokens whose character classes are the sets of        *)
(* tokens made of the characters the class lists.                          *)
(***************************************************************************)
EXTENDS Integers, Sequences, FiniteSets, TLC

\* ------------------------------------------------------------------ bounds
MaxFiles == 3          \* members of one archive
MaxDocs == 2           \* documents handed to validate_documents on its own
MaxCalls == 2          \* successive validate_documents calls on one report
MaxPeriods == 3        \* period markers in a text handed to detect_periods
MaxNames == 4          \* members of an archive handed to score_zip on its own

\* ----------------------------------------------------------------- helpers
None == "None"

Range(s) == {s[i] : i \in 1..Len(s)}

RECURSIVE SumSeq(_)
SumSeq(s) == IF s = <<>> THEN 0 ELSE Head(s) + SumSeq(Tail(s))

Max(a, b) == IF a >= b THEN a ELSE b
Min(a, b) == IF a <= b THEN a ELSE b

\* first-occurrence order of the distinct elements of s (dict / Counter keys)
RECURSIVE Distinct(_)
Distinct(s) ==
    IF s = <<>> THEN <<>>
    ELSE LET front == Distinct(SubSeq(s, 1, Len(s) - 1))
             last == s[Len(s)]
         IN IF last \in Range(front) THEN front ELSE Append(front, last)

Count(s, x) == Cardinality({i \in 1..Len(s) : s[i] = x})

\* ------------------------------------------------------------------ tokens
\* value of a digit run
NumVal ==
    [t \in {"1", "5", "01", "03", "12", "13", "20", "30", "50", "100",
            "300", "500", "600", "2021", "2022", "2023"} |->
        CASE t = "1" -> 1 [] t = "5" -> 5 [] t = "01" -> 1 [] t = "03" -> 3
          [] t = "12" -> 12 [] t = "13" -> 13 [] t = "20" -> 20
          [] t = "30" -> 30 [] t = "50" -> 50 [] t = "100" -> 100
          [] t = "300" -> 300 [] t = "500" -> 500 [] t = "600" -> 600
          [] t = "2021" -> 2021 [] t = "2022" -> 2022 [] t = "2023" -> 2023]

IsDigits(t) == t \in DOMAIN NumVal

Punct == {"_", " ", "\n", "-", "/", ",", ".", "%", "&", ":", "\\", "?"}

Whitespace == {" ", "\n"}

IsWord(t) == ~IsDigits(t) /\ t \notin Punct

\* str.lower() / re.IGNORECASE on one token
UpperWords ==
    [t \in {"INCOME", "STATEMENT", "PDF", "Revenue", "Jan"} |->
        CASE t = "INCOME" -> "income" [] t = "STATEMENT" -> "statement"
          [] t = "PDF" -> "pdf" [] t = "Revenue" -> "revenue"
          [] t = "Jan" -> "jan"]

LowerTok(t) == IF t \in DOMAIN UpperWords THEN UpperWords[t] ELSE t

Lower(s) == [i \in 1..Len(s) |-> LowerTok(s[i])]

\* ------------------------------------------------------- regular expressions
\* A pattern is a sequence of items.  An item matches between min and max
\* consecutive tokens that lie in its set (outside it when neg); the tokens
\* matched by the items marked cap form group 1.
Item(S, ng, lo, hi, cp) == [set |-> S, neg |-> ng, min |-> lo, max |-> hi, cap |-> cp]
MaxRep == 40
Lit(w) == Item({w}, FALSE, 1, 1, FALSE)
Opt(S) == Item(S, FALSE, 0, 1, FALSE)
\* [_\\s]? in a raw string: the class holds '_', the backslash and 's'
Sep == Opt({"_", "\\", "s"})

ItemOk(it, t) == (t \in it.set) # it.neg

\* the longest run of tokens item it can take at position i
RunLen(it, s, i) ==
    LET bound == Min(it.max, Len(s) - i + 1)
    IN CHOOSE n \in 0..Max(bound, 0) :
           /\ \A j \in 0..(n - 1) : ItemOk(it, s[i + j])
           /\ (n = Max(bound, 0) \/ ~ItemOk(it, s[i + n]))

RECURSIVE MatchAt(_, _, _, _)
MatchAt(pat, k, s, i) ==
    IF k > Len(pat) THEN TRUE
    ELSE \E n \in pat[k].min..RunLen(pat[k], s, i) : MatchAt(pat, k + 1, s, i + n)

\* re.search(pattern, s)
Search(pat, s) == \E i \in 1..(Len(s) + 1) : MatchAt(pat, 1, s, i)

\* re.search(pattern, s, flags=re.IGNORECASE), the patterns being lower case
SearchI(pat, s) == Search(pat, Lower(s))

\* the token positions of group 1 for every way pattern items k.. match at
\* position i, in the order a backtracking matcher tries them (greedy: longest
\* repetition first)
RECURSIVE Groups(_, _, _, _, _)
RECURSIVE GroupsFrom(_, _, _, _, _, _)
Groups(pat, k, s, i, cap) ==
    IF k > Len(pat) THEN <<cap>>
    ELSE GroupsFrom(pat, k, s, i, cap, RunLen(pat[k], s, i))
GroupsFrom(pat, k, s, i, cap, n) ==
    IF n < pat[k].min THEN <<>>
    ELSE Groups(pat, k + 1, s, i + n,
                IF pat[k].cap THEN cap \o [j \in 1..n |-> i + j - 1] ELSE cap)
         \o GroupsFrom(pat, k, s, i, cap, n - 1)

\* match.group(1) of re.search(pattern, s, flags=re.IGNORECASE), as a
\* one-element sequence; <<>> when there is no match
SearchGroup(pat, s) ==
    LET low == Lower(s)
        starts == {i \in 1..(Len(s) + 1) : MatchAt(pat, 1, low, i)}
    IN IF starts = {} THEN <<>>
       ELSE LET i0 == CHOOSE i \in starts : \A j \in starts : i <= j
                span == Head(Groups(pat, 1, low, i0, <<>>))
            IN << [j \in 1..Len(span) |-> s[span[j]]] >>

\* ------------------------------------------------------------- path names
\* Path(name).parts
RECURSIVE Parts(_)
Parts(name) ==
    IF name = <<>> THEN <<>>
    ELSE LET cut == {i \in 1..Len(name) : name[i] = "/"}
         IN IF cut = {} THEN <<name>>
            ELSE LET c == CHOOSE i \in cut : \A j \in cut : i <= j
                     rest == Parts(SubSeq(name, c + 1, Len(name)))
                 IN IF c = 1 THEN rest
                    ELSE <<SubSeq(name, 1, c - 1)>> \o rest

\* Path(path).name
BaseName(name) ==
    LET p == Parts(name) IN IF p = <<>> THEN <<>> ELSE p[Len(p)]

\* path.suffix.lower() == ".pdf"
IsPdf(name) ==
    LET b == BaseName(name)
    IN Len(b) >= 3 /\ b[Len(b) - 1] = "." /\ LowerTok(b[Len(b)]) = "pdf"

\* ------------------------------------------------------------ gate_rules.py
\* name |-> patterns, in dict order
REQUIRED_DOC_TYPES ==
    << [type |-> "income_statement",
        patterns |-> << <<Lit("income"), Sep, Lit("statement")>>,
                        <<Lit("p"), Lit("&"), Lit("l")>>,
                        <<Lit("profit"), Sep, Lit("and"), Sep, Lit("loss")>> >>],
       [type |-> "balance_sheet",
        patterns |-> << <<Lit("balance"), Sep, Lit("sheet")>> >>],
       [type |-> "cash_flow",
        patterns |-> << <<Lit("cash"), Sep, Lit("flow")>>,
                        <<Lit("cash"), Lit("flow")>> >>] >>

\* any(re.search(pattern, name) for name in lowered for pattern in patterns)
AnyNameMatches(patterns, lowered) ==
    \E n \in 1..Len(lowered) : \E p \in 1..Len(patterns) :
        Search(patterns[p], lowered[n])

\* find_missing_required without name.lower()
find_missing_required_CaseSensitive(file_names) ==
    LET absent == SelectSeq(REQUIRED_DOC_TYPES,
                            LAMBDA d : ~AnyNameMatches(d.patterns, file_names))
    IN [i \in 1..Len(absent) |-> absent[i].type]

find_missing_required(file_names) ==
    LET lowered == [i \in 1..Len(file_names) |-> Lower(file_names[i])]
        absent == SelectSeq(REQUIRED_DOC_TYPES,
                            LAMBDA d : ~AnyNameMatches(d.patterns, lowered))
    IN [i \in 1..Len(absent) |-> absent[i].type]

detect_folder_structure(file_names) ==
    LET deep == \E i \in 1..Len(file_names) : Len(Parts(file_names[i])) > 3
        top_levels == {Parts(file_names[i])[1] :
                          i \in {j \in 1..Len(file_names) :
                                    Len(Parts(file_names[j])) > 1}}
    IN (IF deep THEN <<"Files nested more than 2 levels deep">> ELSE <<>>)
       \o (IF Cardinality(top_levels) > 3
           THEN <<"Multiple top-level folders detected">> ELSE <<>>)

\* characters outside [a-zA-Z0-9_./\\-]: the class of the raw string also
\* admits the backslash
BadNameToken(t) == t \in (Punct \ {"_", ".", "/", "\\", "-"})

detect_inconsistent_naming(file_names) ==
    LET lowered == [i \in 1..Len(file_names) |-> Lower(file_names[i])]
        duplicates == SelectSeq(Distinct(lowered),
                                LAMBDA n : Count(lowered, n) > 1)
        bad_chars == SelectSeq(file_names,
                               LAMBDA n : \E i \in 1..Len(n) : BadNameToken(n[i]))
    IN (IF duplicates # <<>> THEN <<"Duplicate names">> ELSE <<>>)
       \o (IF bad_chars # <<>>
           THEN <<"Non-alphanumeric characters in file names">> ELSE <<>>)

\* ---------------------------------------------------------------- scorer.py
\* zf.namelist() without the directory entries
FileMembers(members) ==
    SelectSeq(members, LAMBDA m : m.name = <<>> \/ m.name[Len(m.name)] # "/")

MemberNames(members) ==
    LET f == FileMembers(members) IN [i \in 1..Len(f) |-> f[i].name]

\* the scratch directory after _extract_for_scan / unzip_archive: a later
\* member of the same name overwrites an earlier one.  extract_text(path)
\* reads it.
extract_text(members, path) ==
    LET f == FileMembers(members)
        hits == {i \in 1..Len(f) : f[i].name = path}
    IN IF hits = {} THEN <<>>
       ELSE f[CHOOSE i \in hits : \A j \in hits : j <= i].text

\* text.strip() == ""
detect_corrupt_pdf(members, path) ==
    \A i \in 1..Len(extract_text(members, path)) :
        extract_text(members, path)[i] \in Whitespace

_scan_for_corrupt_pdfs(members, extracted_paths) ==
    SelectSeq(extracted_paths,
              LAMBDA p : IsPdf(p) /\ detect_corrupt_pdf(members, p))

\* len(re.findall(r"-?\d[\d,\.]*", text)): a match starts at a digit run and
\* swallows the digit runs, commas and dots that follow
RECURSIVE GateNumbers(_, _, _)
GateNumbers(text, i, inMatch) ==
    IF i > Len(text) THEN 0
    ELSE IF IsDigits(text[i])
         THEN (IF inMatch THEN 0 ELSE 1) + GateNumbers(text, i + 1, TRUE)
         ELSE IF text[i] \in {",", "."}
              THEN GateNumbers(text, i + 1, inMatch)
              ELSE GateNumbers(text, i + 1, FALSE)

_scan_for_sparse_content(members, extracted_paths) ==
    SelectSeq(extracted_paths,
              LAMBDA p : IsPdf(p)
                         /\ GateNumbers(extract_text(members, p), 1, FALSE) < 5)

TERMS == <<"revenue", "cash", "assets", "liabilities", "income", "balance",
           "flow">>

RECURSIVE JoinSpace(_)
JoinSpace(texts) ==
    IF texts = <<>> THEN <<>>
    ELSE IF Len(texts) = 1 THEN texts[1]
         ELSE texts[1] \o <<" ">> \o JoinSpace(Tail(texts))

\* " ".join(text_samples): the text of every PDF
AggregatedText(members, pdfs) ==
    JoinSpace([i \in 1..Len(pdfs) |-> extract_text(members, pdfs[i])])

\* [term for term in terms if term not in aggregated_text]
MissingTerms(lowered) == SelectSeq(TERMS, LAMBDA t : t \notin Range(lowered))

\* the issue raised when at most two of the terms are found
TermsIssue(missing_terms) ==
    IF Len(missing_terms) >= Len(TERMS) - 2
    THEN << [msg |-> "Missing key financial terms", terms |-> missing_terms] >>
    ELSE <<>>

_detect_missing_financial_terms(available, members, extracted_paths) ==
    IF ~available THEN <<>>
    ELSE TermsIssue(MissingTerms(Lower(
             AggregatedText(members, SelectSeq(extracted_paths, IsPdf)))))

\* Penalties with a sparse PDF weighted 5
Penalties_SparseFive(missing_required, folder_issues, naming_issues, corrupt_pdfs, sparse_pdfs, missing_terms) ==
      Len(missing_required) * 20
    + Len(folder_issues) * 10
    + Len(naming_issues) * 5
    + Len(corrupt_pdfs) * 25
    + Len(sparse_pdfs) * 5
    + Len(missing_terms) * 10

\* Penalties with a folder issue weighted 20
Penalties_FolderTwenty(missing_required, folder_issues, naming_issues, corrupt_pdfs, sparse_pdfs, missing_terms) ==
      Len(missing_required) * 20
    + Len(folder_issues) * 20
    + Len(naming_issues) * 5
    + Len(corrupt_pdfs) * 25
    + Len(sparse_pdfs) * 10
    + Len(missing_terms) * 10

Penalties(missing_required, folder_issues, naming_issues, corrupt_pdfs, sparse_pdfs, missing_terms) ==
      Len(missing_required) * 20
    + Len(folder_issues) * 10
    + Len(naming_issues) * 5
    + Len(corrupt_pdfs) * 25
    + Len(sparse_pdfs) * 10
    + Len(missing_terms) * 10

\* GateStatus without the missing-document condition
GateStatus_NoMissingCheck(total_score, missing_required, corrupt_pdfs) ==
    IF total_score >= 70 /\ corrupt_pdfs = <<>> THEN "GOOD" ELSE "BAD"

GateStatus(total_score, missing_required, corrupt_pdfs) ==
    IF total_score >= 70 /\ missing_required = <<>> /\ corrupt_pdfs = <<>>
    THEN "GOOD" ELSE "BAD"

\* the result score_zip returns for a file that is not a ZIP archive
NotAZip ==
    [status |-> "BAD",
     total_score |-> 0,
     issues |-> <<"Not a valid zip archive">>,
     missing_required |-> <<>>,
     corrupt_pdfs |-> <<>>,
     inconsistent_naming |-> <<>>,
     folder_issues |-> <<>>,
     files |-> <<>>]

\* max(0, 100 - penalties)
TotalScore(missing_required, folder_issues, naming_issues, corrupt_pdfs, sparse_pdfs, missing_terms) ==
    Max(0, 100 - Penalties(missing_required, folder_issues, naming_issues,
                           corrupt_pdfs, sparse_pdfs, missing_terms))

\* the issues list of score_zip, in the order the checks append to it
Issues(missing_required, folder_issues, naming_issues, corrupt_pdfs, sparse_pdfs, missing_terms) ==
    (IF missing_required # <<>> THEN <<"Missing required docs">> ELSE <<>>)
    \o folder_issues \o naming_issues
    \o (IF corrupt_pdfs # <<>> THEN <<"Corrupt PDFs">> ELSE <<>>)
    \o (IF sparse_pdfs # <<>> THEN <<"Sparse numeric content">> ELSE <<>>)
    \o [i \in 1..Len(missing_terms) |-> missing_terms[i].msg]

\* the ScoreResult of score_zip
ScoreResult(file_names, missing_required, folder_issues, naming_issues, corrupt_pdfs, sparse_pdfs, missing_terms) ==
    [status |-> GateStatus(TotalScore(missing_required, folder_issues,
                                      naming_issues, corrupt_pdfs, sparse_pdfs,
                                      missing_terms),
                           missing_required, corrupt_pdfs),
     total_score |-> TotalScore(missing_required, folder_issues, naming_issues,
                                corrupt_pdfs, sparse_pdfs, missing_terms),
     issues |-> Issues(missing_required, folder_issues, naming_issues,
                       corrupt_pdfs, sparse_pdfs, missing_terms),
     missing_required |-> missing_required,
     corrupt_pdfs |-> corrupt_pdfs,
     sparse_pdfs |-> sparse_pdfs,
     missing_terms |-> missing_terms,
     inconsistent_naming |-> naming_issues,
     folder_issues |-> folder_issues,
     files |-> file_names]

\* the checks of score_zip on the member names and the extracted files
ScoreFiles(members, file_names, available) ==
    ScoreResult(file_names,
                find_missing_required(file_names),
                detect_folder_structure(file_names),
                detect_inconsistent_naming(file_names),
                _scan_for_corrupt_pdfs(members, file_names),
                _scan_for_sparse_content(members, file_names),
                _detect_missing_financial_terms(available, members, file_names))

\* score_zip past the is_zipfile check
ScoreMembers(zip, available) ==
    ScoreFiles(zip.members, MemberNames(zip.members), available)

\* score_zip without the is_zipfile check
score_zip_NoValidityCheck(zip, available) == ScoreMembers(zip, available)

\* the result of score_zip; zip is [valid, members]
score_zip(zip, available) ==
    IF ~zip.valid THEN NotAZip ELSE ScoreMembers(zip, available)

\* what score_zip does besides returning, in order
score_zip_effects(zip) ==
    IF ~zip.valid THEN <<"is_zipfile", "save score.json">>
    ELSE <<"is_zipfile", "namelist", "extract to gate_scan", "scan pdfs",
           "save score.json">>

\* ---------------------------------------------------------------- router.py
\* route by the score alone
route_ByScore(score_result) ==
    IF "total_score" \in DOMAIN score_result /\ score_result.total_score >= 70
    THEN "STANDARD_PATH" ELSE "EXCEPTION_PATH"

route(score_result) ==
    IF "status" \in DOMAIN score_result /\ score_result.status = "GOOD"
    THEN "STANDARD_PATH" ELSE "EXCEPTION_PATH"

\* -------------------------------------------------------------- classify.py
\* label |-> patterns, in dict order
LABEL_PATTERNS ==
    << [label |-> "income_statement",
        patterns |-> << <<Lit("income"), Sep, Lit("statement")>>,
                        <<Lit("p"), Lit("&"), Lit("l")>>,
                        <<Lit("profit"), Sep, Lit("loss")>> >>],
       [label |-> "balance_sheet",
        patterns |-> << <<Lit("balance"), Sep, Lit("sheet")>> >>],
       [label |-> "cash_flow",
        patterns |-> << <<Lit("cash"), Sep, Lit("flow")>> >>],
       [label |-> "bank_statement",
        patterns |-> << <<Lit("bank"), Sep, Lit("statement")>> >>],
       [label |-> "ar_aging",
        patterns |-> << <<Lit("aging")>>,
                        <<Lit("accounts"), Sep, Lit("receivable")>> >>],
       [label |-> "cap_table",
        patterns |-> << <<Lit("cap"), Sep, Lit("table")>>,
                        <<Lit("capitalization")>> >>],
       [label |-> "contract",
        patterns |-> << <<Lit("contract")>>, <<Lit("agreement")>> >>] >>

\* the reasons one pattern adds, file name first
PatternReasons(pattern, text, filename) ==
    (IF SearchI(pattern, filename) THEN << <<"Filename matches", pattern>> >> ELSE <<>>)
    \o (IF SearchI(pattern, text) THEN << <<"Text matches", pattern>> >> ELSE <<>>)

RECURSIVE ScoreReasons(_, _, _)
ScoreReasons(patterns, text, filename) ==
    IF patterns = <<>> THEN <<>>
    ELSE PatternReasons(Head(patterns), text, filename)
         \o ScoreReasons(Tail(patterns), text, filename)

\* _score_label without the cap at 1.0
_score_label_NoCap(patterns, text, filename) ==
    [confidence |-> Len(ScoreReasons(patterns, text, filename)),
     reasons |-> ScoreReasons(patterns, text, filename)]

\* confidence is held in quarters: q stands for 0.25 * q
_score_label(patterns, text, filename) ==
    LET reasons == ScoreReasons(patterns, text, filename)
        hits == Len(reasons)
    IN [confidence |-> Min(4, hits), reasons |-> reasons]

\* [\\d,\\.] in a raw string: the backslash, 'd', ',' and '.'; no digit
NumberClass == {"\\", "d", ",", "."}
\* the words of the texts that hold a 'd'
WordsWithD == {"d", "and", "ebitda", "tbd", "period"}
\* [^\\d]+
NotBackslashD == Item({"\\"} \cup WordsWithD, TRUE, 1, MaxRep, FALSE)
\* (-?[\\d,\\.]+)
NumberGroup == << Item({"-"}, FALSE, 0, 1, TRUE),
                  Item(NumberClass, FALSE, 1, MaxRep, TRUE) >>
\* <label>[^\\d]+(-?[\\d,\\.]+)
NumberAfter(label) == label \o <<NotBackslashD>> \o NumberGroup

Words(ws) == [i \in 1..(2 * Len(ws) - 1) |->
                 IF i % 2 = 1 THEN Lit(ws[(i + 1) \div 2]) ELSE Lit(" ")]

\* float(number_str), in tenths, as a one-element sequence; <<>> stands for
\* ValueError.  A string without a digit never converts.
ParseFloat(str) ==
    LET neg == str # <<>> /\ Head(str) = "-"
        body == IF neg THEN Tail(str) ELSE str
        sign == IF neg THEN -1 ELSE 1
    IN IF Len(body) = 1 /\ IsDigits(body[1])
       THEN << sign * 10 * NumVal[body[1]] >>
       ELSE IF Len(body) = 3 /\ IsDigits(body[1]) /\ body[2] = "."
               /\ IsDigits(body[3]) /\ Len(body[3]) = 1
            THEN << sign * (10 * NumVal[body[1]] + NumVal[body[3]]) >>
            ELSE <<>>

\* str.replace(",", "")
StripCommas(str) == SelectSeq(str, LAMBDA t : t # ",")

\* a value of Optional type is <<>> (None) or <<v>>
RECURSIVE _extract_number(_, _)
_extract_number(text, patterns) ==
    IF patterns = <<>> THEN <<>>
    ELSE LET match == SearchGroup(Head(patterns), text)
         IN IF match = <<>> THEN _extract_number(text, Tail(patterns))
            ELSE LET v == ParseFloat(StripCommas(match[1]))
                 IN IF v # <<>> THEN v
                    ELSE _extract_number(text, Tail(patterns))

\* \\b(tbd|n/?a|--+|\\?\\?\\?)\\b in a raw string: the word boundaries are a
\* literal backslash followed by 'b'
PlaceholderPatterns ==
    LET b == <<Lit("\\"), Lit("b")>>
    IN { b \o <<Lit("tbd")>> \o b,
         b \o <<Lit("n"), Opt({"/"}), Lit("a")>> \o b,
         b \o <<Item({"-"}, FALSE, 2, MaxRep, FALSE)>> \o b,
         b \o <<Opt({"\\"}), Opt({"\\"}), Opt({"\\"})>> \o b }

_has_placeholder(value) == \E p \in PlaceholderPatterns : SearchI(p, value)

\* re.findall(r"[A-Za-z]+", text): the maximal runs of words
LetterRuns(text) ==
    {SubSeq(text, a, b) : <<a, b>> \in
        {r \in (1..Len(text)) \X (1..Len(text)) :
            /\ r[1] <= r[2]
            /\ \A j \in r[1]..r[2] : IsWord(text[j])
            /\ (r[1] = 1 \/ ~IsWord(text[r[1] - 1]))
            /\ (r[2] = Len(text) \/ ~IsWord(text[r[2] + 1]))}}

\* [k for k in keys if fields[k] is None and k in required]
MissingOf(keys, fields, required) ==
    SelectSeq(keys, LAMBDA k : fields[k] = <<>> /\ k \in required)

\* [k for k, v in fields.items() if v is not None and v < 0]
NegativeOf(keys, fields) ==
    SelectSeq(keys, LAMBDA k : fields[k] # <<>> /\ fields[k][1] < 0)

Extraction(fields, missing, suspicious, format_errors) ==
    [raised |-> FALSE, fields |-> fields, missing |-> missing,
     suspicious |-> suspicious, format_errors |-> format_errors]

\* an extractor left by an uncaught ValueError
Raised == [raised |-> TRUE]

IncomeKeys == <<"revenue", "cogs", "operating_expenses", "ebitda", "net_income">>

\* the fields dict of _extract_income_statement
IncomeFields(text) ==
            ("revenue" :> _extract_number(text, <<NumberAfter(<<Lit("revenue")>>)>>))
         @@ ("cogs" :> _extract_number(text,
                 <<NumberAfter(<<Lit("cogs")>>),
                   NumberAfter(Words(<<"cost", "of", "goods">>))>>))
         @@ ("operating_expenses" :> _extract_number(text,
                 <<NumberAfter(Words(<<"operating", "expenses">>))>>))
         @@ ("ebitda" :> _extract_number(text, <<NumberAfter(<<Lit("ebitda")>>)>>))
         @@ ("net_income" :> _extract_number(text,
                 <<NumberAfter(Words(<<"net", "income">>)),
                   NumberAfter(Words(<<"net", "profit">>))>>))

\* missing, suspicious and format_errors of _extract_income_statement
IncomeFlags(text, fields) ==
    Extraction(fields,
               MissingOf(IncomeKeys, fields, Range(IncomeKeys) \ {"ebitda"}),
               NegativeOf(IncomeKeys, fields),
               IF \E token \in LetterRuns(text) : _has_placeholder(token)
               THEN <<"placeholder detected">> ELSE <<>>)

_extract_income_statement(text) == IncomeFlags(text, IncomeFields(text))

BalanceKeys == <<"cash", "accounts_receivable", "inventory", "pp&e",
                 "accounts_payable", "short_term_debt", "long_term_debt",
                 "equity">>

\* .* : anything but a newline
AnyRun == Item({"\n"}, TRUE, 0, MaxRep, FALSE)

\* [-\\s]? in a raw string
Dash == Opt({"-", "\\", "s"})

\* the fields dict of _extract_balance_sheet
BalanceFields(text) ==
            ("cash" :> _extract_number(text, <<NumberAfter(<<Lit("cash")>>)>>))
         @@ ("accounts_receivable" :> _extract_number(text,
                 <<NumberAfter(Words(<<"accounts", "receivable">>))>>))
         @@ ("inventory" :> _extract_number(text,
                 <<NumberAfter(<<Lit("inventory")>>)>>))
         @@ ("pp&e" :> _extract_number(text,
                 <<NumberAfter(<<Lit("p"), Lit("\\"), Opt({"s"}),
                                 Lit("p"), Lit("\\"), Opt({"s"}),
                                 Lit("&"), Lit("\\"), Opt({"s"}), Lit("e")>>),
                   NumberAfter(<<Lit("property")>>)>>))
         @@ ("accounts_payable" :> _extract_number(text,
                 <<NumberAfter(Words(<<"accounts", "payable">>))>>))
         @@ ("short_term_debt" :> _extract_number(text,
                 <<NumberAfter(<<Lit("short"), Dash, Lit("term"), Lit(" "),
                                 Lit("debt")>>)>>))
         @@ ("long_term_debt" :> _extract_number(text,
                 <<NumberAfter(<<Lit("long"), Dash, Lit("term"), Lit(" "),
                                 Lit("debt")>>)>>))
         @@ ("equity" :> _extract_number(text, <<NumberAfter(<<Lit("equity")>>)>>))

TotalAssets(text) ==
    _extract_number(text, <<NumberAfter(Words(<<"total", "assets">>))>>)

TotalLiabEquity(text) ==
    _extract_number(text,
        << NumberAfter(Words(<<"total", "liabilities">>)
                       \o <<NotBackslashD, Lit("equity")>>),
           NumberAfter(Words(<<"total", "liabilities">>))
           \o <<AnyRun, Lit("equity"), NotBackslashD,
                Opt({"-"}), Item(NumberClass, FALSE, 1, MaxRep, FALSE)>> >>)

\* abs(diff) > 1.0, the totals in tenths
Exceeds(diff) == diff > 10 \/ diff < -10

\* the totals check of _extract_balance_sheet
NonBalancing(total_assets, total_liab_equity) ==
    /\ total_assets # <<>>
    /\ total_liab_equity # <<>>
    /\ Exceeds(total_assets[1] - total_liab_equity[1])

\* missing, suspicious and format_errors of _extract_balance_sheet
BalanceFlags(text, fields) ==
    Extraction(fields,
               MissingOf(BalanceKeys, fields,
                         {"cash", "accounts_receivable", "accounts_payable",
                          "equity"}),
               NegativeOf(BalanceKeys, fields),
               (IF _has_placeholder(text)
                THEN <<"placeholder detected">> ELSE <<>>)
               \o (IF NonBalancing(TotalAssets(text), TotalLiabEquity(text))
                   THEN <<"non_balancing: assets != liabilities + equity">>
                   ELSE <<>>))

_extract_balance_sheet(text) == BalanceFlags(text, BalanceFields(text))

\* \\d{lo,hi} in a raw string: a backslash and lo..hi letters 'd'
BackslashD(lo, hi) == <<Lit("\\"), Item({"d"}, FALSE, lo, hi, FALSE)>>
\* \\s+ in a raw string: a backslash and letters 's'
BackslashS == <<Lit("\\"), Item({"s"}, FALSE, 1, MaxRep, FALSE)>>

\* (\\d{1,2}/\\d{1,2}/\\d{2,4}).{0,40}?(-?[\\d,\\.]+), the amount as the group
TransactionPattern ==
    BackslashD(1, 2) \o <<Lit("/")>> \o BackslashD(1, 2) \o <<Lit("/")>>
    \o BackslashD(2, 4) \o <<Item({"\n"}, TRUE, 0, 40, FALSE)>> \o NumberGroup

\* where the first match of pat in s starts
FirstMatch(pat, s) ==
    CHOOSE i \in 1..(Len(s) + 1) :
        /\ MatchAt(pat, 1, s, i)
        /\ \A j \in 1..(i - 1) : ~MatchAt(pat, 1, s, j)

\* the tokens of s at the positions span
TokensAt(s, span) == [j \in 1..Len(span) |-> s[span[j]]]

\* the group of the match of pat that starts at i
GroupAt(pat, s, i) == TokensAt(s, Head(Groups(pat, 1, s, i, <<>>)))

\* the amounts of re.findall(...): the first one is converted first
Amounts(text) ==
    IF ~Search(TransactionPattern, text) THEN <<>>
    ELSE <<GroupAt(TransactionPattern, text, FirstMatch(TransactionPattern, text))>>

\* [{"date": d, "amount": float(a.replace(",", ""))} for d, a in transactions]
Transactions(amounts) ==
    [i \in 1..Len(amounts) |-> [amount |-> ParseFloat(StripCommas(amounts[i][1]))]]

\* the starting and ending balance of _extract_bank_statement
BankFields(text) ==
       ("starting_balance" :> _extract_number(text,
               <<NumberAfter(Words(<<"starting", "balance">>)),
                 NumberAfter(Words(<<"beginning", "balance">>))>>))
    @@ ("ending_balance" :> _extract_number(text,
               <<NumberAfter(Words(<<"ending", "balance">>)),
                 NumberAfter(Words(<<"closing", "balance">>))>>))

\* missing, suspicious and format_errors of _extract_bank_statement
BankFlags(fields, transactions) ==
    IF \E i \in 1..Len(transactions) : transactions[i].amount = <<>>
    THEN Raised
    ELSE Extraction([scalars |-> fields, list_of_transactions |-> transactions],
                    MissingOf(<<"starting_balance", "ending_balance">>, fields,
                              {"starting_balance", "ending_balance"}),
                    IF NegativeOf(<<"starting_balance">>, fields) # <<>>
                    THEN <<"negative starting_balance">> ELSE <<>>,
                    IF transactions = <<>>
                    THEN <<"incomplete transaction sections">> ELSE <<>>)

_extract_bank_statement(text) ==
    BankFlags(BankFields(text), Transactions(Amounts(text)))

\* text.splitlines()
RECURSIVE SplitLines(_)
SplitLines(text) ==
    LET cut == {i \in 1..Len(text) : text[i] = "\n"}
    IN IF text = <<>> THEN <<>>
       ELSE IF cut = {} THEN <<text>>
            ELSE LET c == CHOOSE i \in cut : \A j \in cut : i <= j
                 IN <<SubSeq(text, 1, c - 1)>>
                    \o SplitLines(SubSeq(text, c + 1, Len(text)))

\* (\\d+[\\d,\\.\\-]*) in a raw string
BackslashNumber(cp) ==
    << Item({"\\"}, FALSE, 1, 1, cp), Item({"d"}, FALSE, 1, MaxRep, cp),
       Item({"\\", "d", ",", ".", "-"}, FALSE, 0, MaxRep, cp) >>

\* ([A-Za-z0-9 ]+)\\s+(\\d+[\\d,\\.\\-]*) four times over, the first number
\* as the group
AgingRowPattern ==
    <<Item(Punct \ {" "}, TRUE, 1, MaxRep, FALSE)>>
    \o BackslashS \o BackslashNumber(TRUE)
    \o BackslashS \o BackslashNumber(FALSE)
    \o BackslashS \o BackslashNumber(FALSE)
    \o BackslashS \o BackslashNumber(FALSE)

\* the lines of the text that hold a row
AgingRows(text) ==
    SelectSeq(SplitLines(text), LAMBDA line : Search(AgingRowPattern, line))

\* float(cur.replace(",", "")) of each row
AgingCurrent(rows) ==
    [i \in 1..Len(rows) |->
        ParseFloat(StripCommas(SearchGroup(AgingRowPattern, rows[i])[1]))]

\* the customers, missing fields and flags of _extract_ar_aging
AgingFlags(current) ==
    IF \E i \in 1..Len(current) : current[i] = <<>>
    THEN Raised
    ELSE Extraction([customers |-> [i \in 1..Len(current) |->
                                       [current |-> current[i]]]],
                    IF current = <<>>
                    THEN <<"current", "thirty_days", "sixty_days",
                           "ninety_plus_days">>
                    ELSE <<>>,
                    <<>>, <<>>)

_extract_ar_aging(text) == AgingFlags(AgingCurrent(AgingRows(text)))

\* ([A-Za-z ]+)\\s+(\\d{1,3}(?:\\.\\d+)?%)\\s+(\\d+[\\d,\\.\\-]*), the
\* percentage as the group; the optional part written out as two patterns
CapRowPatterns ==
    LET name == <<Item((Punct \ {" "}) \cup DOMAIN NumVal, TRUE, 1, MaxRep, FALSE)>>
        pct == <<Item({"\\"}, FALSE, 1, 1, TRUE), Item({"d"}, FALSE, 1, 3, TRUE)>>
        frac == <<Item({"\\"}, FALSE, 1, 1, TRUE), Item({}, TRUE, 1, 1, TRUE),
                  Item({"\\"}, FALSE, 1, 1, TRUE), Item({"d"}, FALSE, 1, MaxRep, TRUE)>>
        rest == <<Lit("%")>> \o BackslashS \o BackslashNumber(FALSE)
    IN << name \o BackslashS \o pct \o frac \o rest,
          name \o BackslashS \o pct \o rest >>

\* the lines of the text that hold a row
CapLines(text) ==
    SelectSeq(SplitLines(text),
              LAMBDA line : \E p \in 1..2 : Search(CapRowPatterns[p], line))

\* which of the two patterns matches the line
CapPattern(line) ==
    CapRowPatterns[IF Search(CapRowPatterns[1], line) THEN 1 ELSE 2]

\* float(pct.replace("%", "")) of a row
PctOf(line) == ParseFloat(SearchGroup(CapPattern(line), line)[1])

\* the percentages that convert: a row whose numbers do not convert is
\* skipped (except ValueError: continue)
CapPercents(found) ==
    SelectSeq([i \in 1..Len(found) |-> PctOf(found[i])], LAMBDA v : v # <<>>)

\* abs(total_pct - 100) > 0.5, the total in tenths
OffHundred(total_pct) == total_pct - 1000 > 5 \/ 1000 - total_pct > 5

\* the rows, total, missing fields and flags of _extract_cap_table
CapFlags(pcts, total_pct) ==
    Extraction([rows |-> [i \in 1..Len(pcts) |-> [ownership_percent |-> pcts[i][1]]],
                ownership_total |-> IF pcts # <<>> THEN <<total_pct>> ELSE <<>>],
               IF pcts = <<>>
               THEN <<"shareholder", "ownership_percent", "shares">> ELSE <<>>,
               <<>>,
               IF pcts # <<>> /\ OffHundred(total_pct)
               THEN <<"ownership total not equal to 100%">> ELSE <<>>)

\* sum(r["ownership_percent"] for r in rows)
CapTotal(pcts) == SumSeq([i \in 1..Len(pcts) |-> pcts[i][1]])

CapRows(pcts) == CapFlags(pcts, CapTotal(pcts))

_extract_cap_table(text) == CapRows(CapPercents(CapLines(text)))

ContractKeys == <<"customer_name", "contract_value", "term_length", "payment_terms">>

\* the fields dict of _extract_contract
ContractFields(text) ==
            ("customer_name" :>
                 SearchGroup(<<Lit("between")>> \o BackslashS
                             \o <<Item((Punct \ {" ", "&"}), TRUE, 1, MaxRep, TRUE)>>,
                             text))
         @@ ("contract_value" :> _extract_number(text,
                 <<NumberAfter(<<Item({"contract", "agreement"}, FALSE, 1, 1, FALSE),
                                 Lit(" "), Lit("value")>>),
                   NumberAfter(<<Lit("value")>>)>>))
         @@ ("term_length" :> _extract_number(text,
                 << <<Lit("term"), NotBackslashD, Item({"\\"}, FALSE, 1, 1, TRUE),
                      Item({"d"}, FALSE, 1, MaxRep, TRUE)>>,
                    <<Lit("\\"), Lit("b"), Item({"\\"}, FALSE, 1, 1, TRUE),
                      Item({"d"}, FALSE, 1, MaxRep, TRUE), Lit(" "),
                      Lit("months"), Lit("\\"), Lit("b")>> >>))
         @@ ("payment_terms" :>
                 IF SearchI(Words(<<"payment", "terms">>)
                            \o <<Item({"\\", "n"}, TRUE, 1, MaxRep, FALSE)>>, text)
                 THEN <<"payment terms">> ELSE <<>>)

\* the missing fields of _extract_contract
ContractFlags(fields) ==
    Extraction(fields,
               MissingOf(ContractKeys, fields,
                         {"customer_name", "contract_value", "term_length"}),
               <<>>, <<>>)

_extract_contract(text) == ContractFlags(ContractFields(text))

UnknownStructured ==
    [document_type |-> "unknown",
     fields |-> <<>>,
     flags |-> [missing_fields |-> <<>>, suspicious_values |-> <<>>,
                format_errors |-> <<"unknown document type">>]]

\* the extractors table of _build_structured
Extract(label, text) ==
    CASE label = "income_statement" -> _extract_income_statement(text)
      [] label = "balance_sheet" -> _extract_balance_sheet(text)
      [] label = "bank_statement" -> _extract_bank_statement(text)
      [] label = "ar_aging" -> _extract_ar_aging(text)
      [] label = "cap_table" -> _extract_cap_table(text)
      [] label = "contract" -> _extract_contract(text)

Extractors == {"income_statement", "balance_sheet", "bank_statement",
               "ar_aging", "cap_table", "contract"}

\* the StructuredDoc built from an extractor's result
Structured(label, e) ==
    IF e.raised THEN Raised
    ELSE [document_type |-> label,
          fields |-> e.fields,
          flags |-> [missing_fields |-> e.missing,
                     suspicious_values |-> e.suspicious,
                     format_errors |-> e.format_errors]]

\* _build_structured keeping the label of a type that has no extractor
_build_structured_KeepLabel(label, text) ==
    IF label = "unknown" THEN UnknownStructured
    ELSE IF label \notin Extractors
         THEN [UnknownStructured EXCEPT !.document_type = label,
                                        !.flags.format_errors = <<>>]
         ELSE Structured(label, Extract(label, text))

_build_structured(label, text) ==
    IF label \notin Extractors THEN UnknownStructured
    ELSE Structured(label, Extract(label, text))

\* one round of the loop of classify_document: sc replaces best when its
\* confidence is higher
Better(best, label, strict, sc) ==
    IF sc.confidence > best.confidence
       \/ (~strict /\ sc.confidence = best.confidence)
    THEN [label |-> label, confidence |-> sc.confidence, reasons |-> sc.reasons]
    ELSE best

\* the loop of classify_document with >= for >: the last of a tie wins
RECURSIVE BestLabel_LastWins(_, _, _, _)
BestLabel_LastWins(k, best, text, filename) ==
    IF k > Len(LABEL_PATTERNS) THEN best
    ELSE BestLabel_LastWins(k + 1,
                            Better(best, LABEL_PATTERNS[k].label, FALSE,
                                   _score_label(LABEL_PATTERNS[k].patterns,
                                                text, filename)),
                            text, filename)

\* the loop of classify_document over LABEL_PATTERNS[k..], best so far given
RECURSIVE BestLabel(_, _, _, _)
BestLabel(k, best, text, filename) ==
    IF k > Len(LABEL_PATTERNS) THEN best
    ELSE BestLabel(k + 1,
                   Better(best, LABEL_PATTERNS[k].label, TRUE,
                          _score_label(LABEL_PATTERNS[k].patterns, text, filename)),
                   text, filename)

\* round(best_confidence * 100, 1), in tenths of a percent
PercentTenths(quarters) == (quarters * 10000 + 20) \div 40

\* the ClassificationRecord of classify_document
Record(path, best, structured) ==
    IF structured = Raised THEN Raised
    ELSE [path |-> path,
          label |-> best.label,
          confidence |-> PercentTenths(best.confidence),
          reasons |-> best.reasons,
          structured |-> structured]

\* classify_document once the best label is found
Classified(path, text, best) ==
    Record(path, best, _build_structured(best.label, text))

classify_document(path, text) ==
    Classified(path, text,
               BestLabel(1, [label |-> "unknown", confidence |-> 0,
                             reasons |-> << <<"No patterns matched">> >>],
                         text, BaseName(path)))

\* round(n / d, 1) for n in tenths: to the nearest integer, ties to even
RoundDiv(n, d) ==
    LET q == n \div d
        r == n % d
    IN IF 2 * r > d \/ (2 * r = d /\ q % 2 = 1) THEN q + 1 ELSE q

\* Counter(doc["label"] for doc in documents): the labels in order of first
\* appearance, each with its count
LabelCounts(documents, labels) ==
    [i \in 1..Len(labels) |->
        <<labels[i], Cardinality({j \in 1..Len(documents) :
                                     documents[j].label = labels[i]})>>]

\* label_counts.most_common(1): the first label of the highest count
MostCommon(counts) ==
    IF counts = <<>> THEN <<>>
    ELSE << counts[CHOOSE i \in 1..Len(counts) :
                /\ \A j \in 1..Len(counts) : counts[j][2] <= counts[i][2]
                /\ \A j \in 1..(i - 1) : counts[j][2] < counts[i][2]][1] >>

\* round(sum(confidences) / len(documents), 1), 0.0 for no document
AverageConfidence(documents) ==
    IF documents # <<>>
    THEN RoundDiv(SumSeq([i \in 1..Len(documents) |-> documents[i].confidence]),
                  Len(documents))
    ELSE 0

\* the summary of classify_documents
Summary(documents, counts) ==
    [documents |-> documents,
     summary |-> [total_documents |-> Len(documents),
                  labels |-> counts,
                  top_label |-> MostCommon(counts),
                  average_confidence |-> AverageConfidence(documents)]]

\* classify_documents once every document is classified
Classifications(documents) ==
    IF \E i \in 1..Len(documents) : documents[i] = Raised THEN Raised
    ELSE Summary(documents,
                 LabelCounts(documents,
                             Distinct([i \in 1..Len(documents) |->
                                          documents[i].label])))

\* pdf_texts is a dict: a sequence of [path, text] with distinct paths
classify_documents(pdf_texts) ==
    Classifications([i \in 1..Len(pdf_texts) |->
                        classify_document(pdf_texts[i].path, pdf_texts[i].text)])

\* ------------------------------------------------------- period_detector.py
MONTHS == <<"jan", "feb", "mar", "apr", "may", "jun", "jul", "aug", "sep",
            "oct", "nov", "dec">>

\* a digit run that is 20dd; the other digit runs of the texts have at most
\* three digits and hold no 20dd
IsYear(t) == IsDigits(t) /\ Len(t) = 4 /\ NumVal[t] \in 2000..2099

\* (0[1-9]|1[0-2]) at the head of a digit run: the month, 0 when none
MonthAtHead(t) ==
    IF ~IsDigits(t) THEN 0
    ELSE IF Len(t) = 2 /\ NumVal[t] \in 1..12 THEN NumVal[t]
    ELSE IF Len(t) = 3 /\ NumVal[t] \in 100..129 THEN NumVal[t] \div 10
    ELSE 0

\* a period token: <<year>> for "YYYY", <<year, month>> for "YYYY-MM",
\* <<month name, white space, year>> for "<mon> YYYY"
YearMonthAt(text, i, seps) ==
    /\ i + 2 <= Len(text)
    /\ IsYear(text[i])
    /\ text[i + 1] \in seps
    /\ MonthAtHead(text[i + 2]) # 0

\* the white space tokens from i on
RECURSIVE SpaceRun(_, _)
SpaceRun(text, i) ==
    IF i <= Len(text) /\ text[i] \in Whitespace
    THEN <<text[i]>> \o SpaceRun(text, i + 1) ELSE <<>>

MonthNameAt(text, i) ==
    /\ LowerTok(text[i]) \in Range(MONTHS)
    /\ SpaceRun(text, i + 1) # <<>>
    /\ i + 1 + Len(SpaceRun(text, i + 1)) <= Len(text)
    /\ IsYear(text[i + 1 + Len(SpaceRun(text, i + 1))])

PeriodSet(text) ==
    {<<NumVal[text[i]]>> : i \in {j \in 1..Len(text) : IsYear(text[j])}}
    \cup {<<NumVal[text[i]], MonthAtHead(text[i + 2])>> :
             i \in {j \in 1..Len(text) : YearMonthAt(text, j, {"-", "_", "/"})}}
    \cup {<<LowerTok(text[i]), SpaceRun(text, i + 1),
            NumVal[text[i + 1 + Len(SpaceRun(text, i + 1))]]>> :
             i \in {j \in 1..Len(text) : MonthNameAt(text, j)}}

\* the place of a period token in the lexicographic order of the strings:
\* digits sort before letters, "2023" before "2023-01"
MonthNameRank(m) ==
    CASE m = "apr" -> 1 [] m = "aug" -> 2 [] m = "dec" -> 3 [] m = "feb" -> 4
      [] m = "jan" -> 5 [] m = "jul" -> 6 [] m = "jun" -> 7 [] m = "mar" -> 8
      [] m = "may" -> 9 [] m = "nov" -> 10 [] m = "oct" -> 11 [] m = "sep" -> 12

PeriodKey(p) ==
    IF Len(p) = 1 THEN p[1] * 100
    ELSE IF Len(p) = 2 THEN p[1] * 100 + p[2]
    ELSE 1000000 * MonthNameRank(p[1]) + 10000 * (IF p[2][1] = "\n" THEN 0 ELSE 1)
         + 100 * Len(p[2]) + (p[3] - 2000)

\* sorted(periods)
RECURSIVE SortPeriods(_)
SortPeriods(S) ==
    IF S = {} THEN <<>>
    ELSE LET m == CHOOSE x \in S : \A y \in S : PeriodKey(x) <= PeriodKey(y)
         IN <<m>> \o SortPeriods(S \ {m})

\* sorted(S) for a set of integers
RECURSIVE SortInts(_)
SortInts(S) ==
    IF S = {} THEN <<>>
    ELSE LET m == CHOOSE x \in S : \A y \in S : x <= y
         IN <<m>> \o SortInts(S \ {m})

detect_periods(text) == SortPeriods(PeriodSet(text))

\* the YYYY-MM strings for one year and the months 1..12 outside present
RECURSIVE MissingInYear(_, _, _)
MissingInYear(year, month, present) ==
    IF month > 12 THEN <<>>
    ELSE (IF month \notin present THEN << <<year, month>> >> ELSE <<>>)
         \o MissingInYear(year, month + 1, present)

RECURSIVE MissingInYears(_, _)
MissingInYears(years, present) ==
    IF years = <<>> THEN <<>>
    ELSE MissingInYear(Head(years), 1, present)
         \o MissingInYears(Tail(years), present)

\* the months missing year by year: those the year itself does not hold
PerYear(missing, ym_values) ==
    SelectSeq(missing, LAMBDA m : \A i \in 1..Len(ym_values) : ym_values[i] # m)

\* detect_missing_months with the months present taken year by year
detect_missing_months_PerYear(periods) ==
    PerYear(MissingInYears(SortInts({p[1] : p \in {q \in Range(periods) : Len(q) = 2}}),
                           {}),
            SelectSeq(periods, LAMBDA p : Len(p) = 2))

detect_missing_months(periods) ==
    LET ym_values == SelectSeq(periods, LAMBDA p : Len(p) = 2)
    IN IF ym_values = <<>> THEN <<>>
       ELSE MissingInYears(SortInts({ym_values[i][1] : i \in 1..Len(ym_values)}),
                           {ym_values[i][2] : i \in 1..Len(ym_values)})

\* ------------------------------------------------------ schema_validator.py
\* where the scan of -?\d{1,3}(?:,\d{3})*(?:\.\d+)? resumes once the leading
\* digits of a match have ended with the digit run before token j
RECURSIVE AfterThousands(_, _)
AfterThousands(text, j) ==
    IF j + 1 <= Len(text) /\ text[j] = "," /\ IsDigits(text[j + 1])
       /\ Len(text[j + 1]) >= 3
    THEN IF Len(text[j + 1]) = 3 THEN AfterThousands(text, j + 2)
         ELSE [pos |-> j + 1, off |-> 3]
    ELSE IF j + 1 <= Len(text) /\ text[j] = "." /\ IsDigits(text[j + 1])
         THEN [pos |-> j + 2, off |-> 0]
         ELSE [pos |-> j, off |-> 0]

\* the number of matches from token i on, off digits of token i being spent
RECURSIVE CountNumbers(_, _, _)
CountNumbers(text, i, off) ==
    IF i > Len(text) THEN 0
    ELSE IF ~IsDigits(text[i]) THEN CountNumbers(text, i + 1, 0)
    ELSE IF Len(text[i]) - off > 3 THEN 1 + CountNumbers(text, i, off + 3)
    ELSE LET next == AfterThousands(text, i + 1)
         IN 1 + CountNumbers(text, next.pos, next.off)

\* len(_extract_numbers(text)): every match converts
_extract_numbers(text) == CountNumbers(text, 1, 0)

_detect_dates(text) ==
    \/ \E i \in 1..Len(text) : YearMonthAt(text, i, {"-", "/"})
    \/ \E i \in 1..Len(text) : MonthNameAt(text, i)

\* len(re.findall(r"[A-Za-z]", text))
AlphaChars(text) ==
    SumSeq([i \in 1..Len(text) |-> IF IsWord(text[i]) THEN Len(text[i]) ELSE 0])

\* what the validator appends to a document's format_errors
Appended(text) ==
    (IF ~_detect_dates(text) THEN <<"missing dates">> ELSE <<>>)
    \o (IF AlphaChars(text) < 20 /\ _extract_numbers(text) < 5
        THEN <<"sparse content">> ELSE <<>>)

\* classification_map.get(path): the place in documents of the structured
\* record kept for path (the last one of that path), 0 when there is none
MapIndex(documents, path) ==
    LET hits == {j \in 1..Len(documents) : documents[j].path = path}
    IN IF hits = {} THEN 0 ELSE CHOOSE j \in hits : \A k \in hits : k <= j

\* the flag lists the validator reads for path; the lists are those of the
\* classifier's record
FlagsFor(documents, path) ==
    IF MapIndex(documents, path) = 0
    THEN [missing_fields |-> <<>>, suspicious_values |-> <<>>,
          format_errors |-> <<>>]
    ELSE documents[MapIndex(documents, path)].structured.flags

\* the detail record of one document
Detail(doc, periods, numbers, flags) ==
    [path |-> doc.path,
     periods |-> periods,
     numeric_values_found |-> numbers,
     missing_months |-> detect_missing_months(periods),
     passes_numeric_presence |-> numbers > 5,
     passes_period_detection |-> Len(periods) > 0,
     has_dates |-> _detect_dates(doc.text),
     missing_fields |-> flags.missing_fields,
     suspicious_values |-> flags.suspicious_values,
     \* format_errors.append(...) on the list read above
     format_errors |-> flags.format_errors \o Appended(doc.text)]

DetailOf(doc, documents) ==
    Detail(doc, detect_periods(doc.text), _extract_numbers(doc.text),
           FlagsFor(documents, doc.path))

\* the classifier's documents once validate_documents has run: the appends
\* were made in place on the lists of the classifier's records
AppendedTo(document, pdf_texts, users) ==
    IF users = {} THEN document
    ELSE [document EXCEPT !.structured.flags.format_errors =
              @ \o Appended(pdf_texts[CHOOSE i \in users : TRUE].text)]

DocumentsAfter(pdf_texts, documents) ==
    [j \in 1..Len(documents) |->
        AppendedTo(documents[j], pdf_texts,
                   {i \in 1..Len(pdf_texts) :
                       MapIndex(documents, pdf_texts[i].path) = j})]

\* ContinuityBreaks with a break for every pair of different years
ContinuityBreaks_EveryPair(years) ==
    SelectSeq([i \in 1..(Len(years) - 1) |-> <<years[i], years[i + 1]>>],
              LAMBDA g : g[2] - g[1] > 0)

\* for prev, current in zip(years, years[1:]): if current - prev > 1
ContinuityBreaks(years) ==
    SelectSeq([i \in 1..(Len(years) - 1) |-> <<years[i], years[i + 1]>>],
              LAMBDA g : g[2] - g[1] > 1)

\* FailsCompleteness without the format errors
FailsCompleteness_NoFormat(d) ==
    d.missing_fields # <<>> \/ ~d.passes_numeric_presence

FailsCompleteness(d) ==
    d.missing_fields # <<>> \/ d.format_errors # <<>> \/ ~d.passes_numeric_presence

\* sorted({int(p[:4]) for p in all_periods if len(p) >= 4 and p[:4].isdigit()})
YearsDetected(details) ==
    SortInts({p[1] : p \in {q \in UNION {Range(details[i].periods) :
                                             i \in 1..Len(details)} : Len(q) <= 2}})

\* MissingMonths reading the document processed first only
MissingMonths_FirstDocument(details) ==
    IF details = <<>> THEN <<>> ELSE SortPeriods(Range(details[1].missing_months))

\* sorted(set(missing_months_global))
MissingMonths(details) ==
    SortPeriods(UNION {Range(details[i].missing_months) : i \in 1..Len(details)})

\* ValidationSummary that passes only when a document was validated
ValidationSummary_NeedsDocument(details, continuity_breaks, completeness_failures) ==
    [documents_validated |-> Len(details),
     years_detected |-> YearsDetected(details),
     continuity_breaks |-> continuity_breaks,
     missing_months |-> MissingMonths(details),
     completeness_failures |-> Len(completeness_failures),
     passes |-> details # <<>> /\ continuity_breaks = <<>>
                /\ Len(completeness_failures) = 0]

\* the summary of validate_documents
ValidationSummary(details, continuity_breaks, completeness_failures) ==
    [documents_validated |-> Len(details),
     years_detected |-> YearsDetected(details),
     continuity_breaks |-> continuity_breaks,
     missing_months |-> MissingMonths(details),
     completeness_failures |-> Len(completeness_failures),
     passes |-> continuity_breaks = <<>> /\ Len(completeness_failures) = 0]

\* the ValidationReport of validate_documents
ValidationReport(details) ==
    [summary |-> ValidationSummary(details,
                                   ContinuityBreaks(YearsDetected(details)),
                                   SelectSeq(details, FailsCompleteness)),
     details |-> details]

\* the report of validate_documents and the classification as it is left
validate_documents(pdf_texts, classification) ==
    [report |->
        ValidationReport([i \in 1..Len(pdf_texts) |->
                             DetailOf(pdf_texts[i], classification.documents)]),
     classification |->
        [classification EXCEPT
            !.documents = DocumentsAfter(pdf_texts, classification.documents)]]

\* ------------------------------------------------------------------ inputs
\* file names
Pdf(stem) == stem \o <<".", "pdf">>
nIncome == Pdf(<<"income", "_", "statement">>)
nIncomeUpper == <<"INCOME", "_", "STATEMENT", ".", "PDF">>
nIncomeSpace == Pdf(<<"income", " ", "statement">>)
nBalance == Pdf(<<"balance", "_", "sheet">>)
nCash == Pdf(<<"cash", "_", "flow">>)
nAging == Pdf(<<"aging">>)
nNotes == Pdf(<<"notes">>)
nPandL == Pdf(<<"p", "&", "l", "_", "income", "statement">>)
nAllThree == <<"income", "_", "statement", "_", "balance", "s", "sheet", "_",
               "cash", "flow", ".", "xlsx">>
nDeep == <<"a", "/", "b", "/", "c", "/", "cash", "_", "flow", ".", "xlsx">>
nFolder == <<"cash", "_", "flow", "/", "notes", ".", "pdf">>

\* document texts
Line(label, number) == label \o <<" ", number, "\n">>
tEmpty == <<>>
tBlank == <<" ", "\n">>
tIncome ==
    <<"income", "_", "statement", "\n">>
    \o Line(<<"Revenue">>, "100") \o Line(<<"cogs">>, "50")
    \o Line(<<"operating", " ", "expenses">>, "20")
    \o Line(<<"net", " ", "income">>, "30")
    \o <<"period", " ", "2023", "-", "01">>
tBalance ==
    <<"balance", "_", "sheet", "\n">>
    \o Line(<<"cash">>, "100") \o Line(<<"accounts", " ", "receivable">>, "50")
    \o Line(<<"accounts", " ", "payable">>, "30") \o Line(<<"equity">>, "300")
    \o Line(<<"total", " ", "assets">>, "500")
    \o Line(<<"total", " ", "liabilities">>, "300")
    \o <<"2022", "/", "12">>
tCash ==
    <<"cash", "_", "flow", " ", "and", " ", "balance", "_", "sheet", "\n">>
    \o Line(<<"operating">>, "100") \o Line(<<"investing">>, "50")
    \o Line(<<"financing">>, "30") \o Line(<<"net">>, "20")
    \o <<"Jan", " ", "2021">>
tNotes == <<"notes", " ", "2021", " ", "to", " ", "2023">>
tAgingRow ==
    <<"aging", "\n", "acme", "\\", "s", "\\", "d", "\\", "s", "\\", "d",
      "\\", "s", "\\", "d", "\\", "s", "\\", "d">>
tProfit ==
    <<"income", "s", "statement", " ", "p", "&", "l", " ", "profit", "loss",
      " ", "1", ",", "100", ".", "5", " ", "2023", "_", "100">>
tContract ==
    <<"agreement", " ", "between", " ", "acme", " ", "and", " ", "bank", "\n",
      "contract", " ", "value", ":", " ", "600", "\n", "term", " ", "12", " ",
      "months", "\n", "payment", " ", "terms", " ", "30", "\n", "1", "/", "5",
      "/", "2022", " ", "13", " ", "20">>

\* a capitalization table whose four rows sum to 95%
tCapTable ==
    <<"capitalization", "\n", "alice", " ", "50", "%", " ", "500", "\n",
      "bob", " ", "20", "%", " ", "300", "\n", "carol", " ", "20", "%", " ",
      "100", "\n", "dan", " ", "5", "%", " ", "50">>

\* what the fallback of extract_text can give
tRaw == <<"INCOME", "STATEMENT", ":", "2023">>

Names == {nIncome, nIncomeUpper, nIncomeSpace, nBalance, nCash, nAging, nNotes,
          nPandL, nAllThree, nDeep, nFolder}

Texts == {tEmpty, tBlank, tIncome, tBalance, tCash, tNotes, tAgingRow,
          tProfit, tContract, tCapTable, tRaw}

\* the members archives are built from: a name and what text extraction
\* gives for the stored file
Member(n, t) == [name |-> n, text |-> t]
Members == {Member(nAllThree, tEmpty), Member(nIncome, tIncome),
            Member(nIncome, tEmpty), Member(nIncomeSpace, tNotes),
            Member(nCash, tCash), Member(nAging, tAgingRow),
            Member(nDeep, tEmpty), Member(<<"a", "/">>, tEmpty),
            Member(nIncome, tRaw), Member(nIncomeUpper, tCash)}

\* Without pdfplumber and PyPDF2, extract_text decodes the bytes and keeps only
\* the characters of [\\x09\\x0a\\x0d\\x20-\\x7E] (a raw string): the
\* backslash, the range '0' to '\', and the letters a, d, x.  No white space,
\* no lower-case word, no '-', '/', '.', ',' survives.
FallbackToken(t) ==
    \/ IsDigits(t)
    \/ t \in {"\\", ":", "?", "a", "d", "x"}
    \/ (t \in DOMAIN UpperWords /\ t \notin {"Revenue", "Jan"})

FallbackText(t) == \A i \in 1..Len(t) : FallbackToken(t[i])

SeqsUpTo(S, n) == UNION {[1..k -> S] : k \in 0..n}

\* a file that is not a ZIP archive has no members to list
Archives ==
    {[valid |-> TRUE, members |-> m] : m \in SeqsUpTo(Members, MaxFiles)}
    \cup {[valid |-> FALSE, members |-> <<>>]}

\* the texts of an archive are texts the extraction at hand can give
Extractable(archive, backend) ==
    backend \/ \A i \in 1..Len(archive.members) :
                   FallbackText(archive.members[i].text)

\* ------------------------------------------------------------ run_pipeline.py
VARIABLES
    pc,              \* the statement of run_pipeline (or the call) that is next
    zip,             \* the archive handed in: [valid, members]
    available,       \* PDF_EXTRACTION_AVAILABLE
    score,           \* result of score_zip
    routing,         \* result of route
    pdf_paths,       \* the PDF files unzip_archive produced
    pdf_texts,       \* result of extract_texts: a sequence of [path, text]
    returned,        \* the classification as the classifier returned it
    classification,  \* the classification object as it is now
    validation,      \* result of validate_documents
    status,          \* PipelineResult.status
    bad_bank,        \* the rejection reports written by quarantine
    good_bank,       \* the manifests written by store
    trace,           \* the stages and side effects so far, in order
    record,          \* result of the function that is called alone
    calls            \* validate_documents calls made on the classification

vars == <<pc, zip, available, score, routing, pdf_paths, pdf_texts, returned,
          classification, validation, status, bad_bank, good_bank, trace,
          record, calls>>

Unset == [unset |-> TRUE]
NoArchive == [valid |-> FALSE, members |-> <<>>]
NoClassification == [documents |-> <<>>]

Blank ==
    /\ score = Unset
    /\ routing = "None"
    /\ pdf_paths = <<>>
    /\ validation = Unset
    /\ status = "None"
    /\ bad_bank = <<>>
    /\ good_bank = <<>>
    /\ trace = <<>>
    /\ record = Unset
    /\ calls = 0

Init ==
    /\ pc = "intake"
    /\ zip \in Archives
    /\ available \in BOOLEAN
    /\ Extractable(zip, available)
    /\ pdf_texts = <<>>
    /\ returned = Unset
    /\ classification = Unset
    /\ Blank

\* save_zip_locally
Intake ==
    /\ pc = "intake"
    /\ pc' = "score_zip"
    /\ trace' = Append(trace, "intake")
    /\ UNCHANGED <<zip, available, score, routing, pdf_paths, pdf_texts,
                   returned, classification, validation, status, bad_bank,
                   good_bank, record, calls>>

ScoreZip ==
    /\ pc = "score_zip"
    /\ score' = score_zip(zip, available)
    /\ trace' = trace \o score_zip_effects(zip)
    /\ pc' = "route"
    /\ UNCHANGED <<zip, available, routing, pdf_paths, pdf_texts, returned,
                   classification, validation, status, bad_bank, good_bank,
                   record, calls>>

Route ==
    /\ pc = "route"
    /\ routing' = route(score)
    /\ pc' = IF route(score) = "EXCEPTION_PATH" THEN "quarantine_gate" ELSE "unzip"
    /\ UNCHANGED <<zip, available, score, pdf_paths, pdf_texts, returned,
                   classification, validation, status, bad_bank, good_bank,
                   trace, record, calls>>

QuarantineGate ==
    /\ pc = "quarantine_gate"
    /\ bad_bank' = Append(bad_bank, [reason |-> "Quality gate failure",
                                     score_report |-> score,
                                     classification_attempt |-> Unset])
    /\ status' = "REJECTED"
    /\ trace' = Append(trace, "quarantine")
    /\ pc' = "done"
    /\ UNCHANGED <<zip, available, score, routing, pdf_paths, pdf_texts,
                   returned, classification, validation, good_bank, record,
                   calls>>

Unzip ==
    /\ pc = "unzip"
    /\ pdf_paths' = SelectSeq(MemberNames(zip.members), IsPdf)
    /\ trace' = Append(trace, "unzip")
    /\ pc' = "extract_texts"
    /\ UNCHANGED <<zip, available, score, routing, pdf_texts, returned,
                   classification, validation, status, bad_bank, good_bank,
                   record, calls>>

\* extract_texts: one dict entry for each distinct path
ExtractTexts ==
    /\ pc = "extract_texts"
    /\ pdf_texts' = [i \in 1..Len(Distinct(pdf_paths)) |->
                        [path |-> Distinct(pdf_paths)[i],
                         text |-> extract_text(zip.members, Distinct(pdf_paths)[i])]]
    /\ trace' = Append(trace, "extract_texts")
    /\ pc' = "classify_documents"
    /\ UNCHANGED <<zip, available, score, routing, pdf_paths, returned,
                   classification, validation, status, bad_bank, good_bank,
                   record, calls>>

\* classify_documents; an exception of an extractor leaves run_pipeline
Classification ==
    /\ pc = "classify_documents"
    /\ trace' = Append(trace, "classify_documents")
    /\ IF classify_documents(pdf_texts) = Raised
       THEN /\ pc' = "raised"
            /\ UNCHANGED <<classification, returned>>
       ELSE /\ pc' = "validate_documents"
            /\ classification' = classify_documents(pdf_texts)
            /\ returned' = classification'
    /\ UNCHANGED <<zip, available, score, routing, pdf_paths, pdf_texts,
                   validation, status, bad_bank, good_bank, record, calls>>

Validation ==
    /\ pc = "validate_documents"
    /\ validation' = validate_documents(pdf_texts, classification).report
    /\ classification' = validate_documents(pdf_texts, classification).classification
    /\ calls' = calls + 1
    /\ trace' = Append(trace, "validate_documents")
    /\ pc' = IF validate_documents(pdf_texts, classification).report.summary.passes
             THEN "memo" ELSE "quarantine_validation"
    /\ UNCHANGED <<zip, available, score, routing, pdf_paths, pdf_texts,
                   returned, status, bad_bank, good_bank, record>>

QuarantineValidation ==
    /\ pc = "quarantine_validation"
    /\ bad_bank' = Append(bad_bank, [reason |-> "Validation failures",
                                     score_report |-> score,
                                     classification_attempt |-> classification])
    /\ status' = "REJECTED_VALIDATION"
    /\ trace' = Append(trace, "quarantine")
    /\ pc' = "done"
    /\ UNCHANGED <<zip, available, score, routing, pdf_paths, pdf_texts,
                   returned, classification, validation, good_bank, record,
                   calls>>

\* extract, analyze, format_memo
Memo ==
    /\ pc = "memo"
    /\ trace' = Append(trace, "memo")
    /\ pc' = "store_good"
    /\ UNCHANGED <<zip, available, score, routing, pdf_paths, pdf_texts,
                   returned, classification, validation, status, bad_bank,
                   good_bank, record, calls>>

StoreGood ==
    /\ pc = "store_good"
    /\ good_bank' = Append(good_bank, [version |-> 1])
    /\ status' = "COMPLETED"
    /\ trace' = Append(trace, "store_good")
    /\ pc' = "done"
    /\ UNCHANGED <<zip, available, score, routing, pdf_paths, pdf_texts,
                   returned, classification, validation, bad_bank, record,
                   calls>>

Next ==
    \/ Intake
    \/ ScoreZip
    \/ Route
    \/ QuarantineGate
    \/ Unzip
    \/ ExtractTexts
    \/ Classification
    \/ Validation
    \/ QuarantineValidation
    \/ Memo
    \/ StoreGood

Spec == Init /\ [][Next]_vars

\* ------------------------------------------- classify_document called alone
InitClassify ==
    /\ pc = "classify_document"
    /\ zip = NoArchive
    /\ available = TRUE
    /\ pdf_texts \in {<<[path |-> n, text |-> t]>> : n \in Names, t \in Texts}
    /\ returned = Unset
    /\ classification = Unset
    /\ Blank

ClassifyDocument ==
    /\ pc = "classify_document"
    /\ record' = classify_document(pdf_texts[1].path, pdf_texts[1].text)
    /\ pc' = IF classify_document(pdf_texts[1].path, pdf_texts[1].text) = Raised
             THEN "raised" ELSE "done"
    /\ UNCHANGED <<zip, available, score, routing, pdf_paths, pdf_texts,
                   returned, classification, validation, status, bad_bank,
                   good_bank, trace, calls>>

NextClassify == ClassifyDocument

SpecClassify == InitClassify /\ [][NextClassify]_vars

\* ------------------------------------------ validate_documents called alone
Paths == {nIncome, nCash, nNotes}

\* the texts handed to validate_documents
ValidateTexts == {tEmpty, tIncome, tBalance, tCash, tNotes, tContract}

\* the dicts of at most MaxDocs documents
TextDicts ==
    {d \in SeqsUpTo([path : Paths, text : ValidateTexts], MaxDocs) :
        \A i, j \in 1..Len(d) : i # j => d[i].path # d[j].path}

\* validate_documents is handed the classifier's report for these texts, or
\* no classification
InitValidate ==
    /\ pc = "validate_documents"
    /\ zip = NoArchive
    /\ available = TRUE
    /\ pdf_texts \in {d \in TextDicts : classify_documents(d) # Raised}
    /\ classification \in {classify_documents(pdf_texts), NoClassification}
    /\ returned = classification
    /\ Blank

ValidateDocuments ==
    /\ pc = "validate_documents"
    /\ calls < MaxCalls
    /\ validation' = validate_documents(pdf_texts, classification).report
    /\ classification' = validate_documents(pdf_texts, classification).classification
    /\ calls' = calls + 1
    /\ UNCHANGED <<pc, zip, available, score, routing, pdf_paths, pdf_texts,
                   returned, status, bad_bank, good_bank, trace, record>>

NextValidate == ValidateDocuments

SpecValidate == InitValidate /\ [][NextValidate]_vars

\* ----------------------------------------- detect_missing_months called alone
\* period markers a text is made of
PeriodMarkers ==
    { <<"2022", "-", "01">>, <<"2023", "-", "01">>, <<"2023", "/", "03">>,
      <<"2022", "_", "12">>, <<"2021">>, <<"Jan", " ", "2021">>,
      <<"2023", "-", "13">> }

\* the texts of at most MaxPeriods markers, a space between two of them
PeriodTexts ==
    {JoinSpace(ms) : ms \in SeqsUpTo(PeriodMarkers, MaxPeriods)}

InitPeriods ==
    /\ pc = "detect_missing_months"
    /\ zip = NoArchive
    /\ available = TRUE
    /\ pdf_texts \in {<<[path |-> nNotes, text |-> t]>> : t \in PeriodTexts}
    /\ returned = Unset
    /\ classification = Unset
    /\ Blank

\* periods = detect_periods(text); detect_missing_months(periods)
DetectMissingMonths ==
    /\ pc = "detect_missing_months"
    /\ record' = [periods |-> detect_periods(pdf_texts[1].text),
                  missing_months |->
                      detect_missing_months(detect_periods(pdf_texts[1].text))]
    /\ pc' = "done"
    /\ UNCHANGED <<zip, available, score, routing, pdf_paths, pdf_texts,
                   returned, classification, validation, status, bad_bank,
                   good_bank, trace, calls>>

NextPeriods == DetectMissingMonths

SpecPeriods == InitPeriods /\ [][NextPeriods]_vars

\* ------------------------------------------------- score_zip called alone
\* names in folders: a PDF four parts deep, two names that differ by case
\* only (their folders too), a folder whose name holds '&'
gDeepPdf == <<"a", "/", "b", "/", "c", "/", "cash", "_", "flow", ".", "pdf">>
gLower == <<"income", "/", "balance", "_", "sheet", ".", "xlsx">>
gUpper == <<"INCOME", "/", "balance", "_", "sheet", ".", "xlsx">>
gAmp == <<"p", "&", "l", "/", "notes", ".", "xlsx">>

GateMembers ==
    {Member(gDeepPdf, tCash), Member(gLower, tEmpty), Member(gUpper, tEmpty),
     Member(gAmp, tEmpty), Member(nAllThree, tEmpty), Member(nNotes, tEmpty)}

GateArchives ==
    {[valid |-> TRUE, members |-> m] : m \in SeqsUpTo(GateMembers, MaxNames)}
    \cup {[valid |-> FALSE, members |-> <<>>]}

InitGate ==
    /\ pc = "score_zip"
    /\ zip \in GateArchives
    /\ available \in BOOLEAN
    /\ Extractable(zip, available)
    /\ pdf_texts = <<>>
    /\ returned = Unset
    /\ classification = Unset
    /\ Blank

NextGate == ScoreZip

SpecGate == InitGate /\ [][NextGate]_vars

\* ================================================================== claims
Scored == score # Unset
Ended == pc \in {"done", "raised"}
LaterStages == {"unzip", "extract_texts", "classify_documents",
                "validate_documents", "memo", "store_good"}

\* C1: for a valid archive the gate status is GOOD exactly when the total
\* score is at least 70, no required document is missing and no PDF is
\* corrupt; otherwise it is BAD.
C1_StatusIff ==
    (Scored /\ zip.valid) =>
        /\ score.status \in {"GOOD", "BAD"}
        /\ score.status = "GOOD" <=>
               (/\ score.total_score >= 70
                /\ score.missing_required = <<>>
                /\ score.corrupt_pdfs = <<>>)

\* a missing document alone keeps an archive of score 80 out of GOOD
C1_Witness ==
    /\ Scored /\ zip.valid
    /\ score.status = "BAD"
    /\ score.total_score >= 70
    /\ score.missing_required # <<>>
    /\ score.corrupt_pdfs = <<>>

\* the penalty formula of the claim, from the collections of the result
C2_Penalty(r) ==
      20 * Len(r.missing_required) + 10 * Len(r.folder_issues)
    + 5 * Len(r.inconsistent_naming) + 25 * Len(r.corrupt_pdfs)
    + 10 * Len(r.sparse_pdfs) + 10 * (IF r.missing_terms # <<>> THEN 1 ELSE 0)

DistinctNames(members) ==
    \A i, j \in 1..Len(members) : i # j => members[i].name # members[j].name

\* C2: the total score lies in 0..100 and is max(0, 100 - penalty), the
\* penalty being the weighted sum of the counts; listing the same files in
\* another order gives the same score.
C2_ScoreFormula ==
    (Scored /\ zip.valid) =>
        /\ score.total_score \in 0..100
        /\ score.total_score = Max(0, 100 - C2_Penalty(score))
        /\ (pc = "route" /\ DistinctNames(zip.members)) =>
               \A f \in Permutations(1..Len(zip.members)) :
                   score_zip([zip EXCEPT !.members =
                                  [i \in 1..Len(zip.members) |-> zip.members[f[i]]]],
                             available).total_score = score.total_score

\* the penalties pass 100 and the score stops at 0
C2_Witness ==
    /\ Scored /\ zip.valid
    /\ C2_Penalty(score) > 100
    /\ score.total_score = 0
    /\ score.sparse_pdfs # <<>>

\* some file name, lower-cased, has a match for required archetype k
C3_Present(k) ==
    \E i \in 1..Len(score.files) : \E p \in 1..Len(REQUIRED_DOC_TYPES[k].patterns) :
        SearchI(REQUIRED_DOC_TYPES[k].patterns[p], score.files[i])

\* C3: missing_required lists exactly the required archetypes no file name
\* matches, each once, and an archive that misses one is not GOOD.
C3_MissingExact ==
    (Scored /\ zip.valid) =>
        /\ \A k \in 1..Len(REQUIRED_DOC_TYPES) :
               Count(score.missing_required, REQUIRED_DOC_TYPES[k].type)
                   = IF C3_Present(k) THEN 0 ELSE 1
        /\ Len(score.missing_required) =
               Cardinality({k \in 1..Len(REQUIRED_DOC_TYPES) : ~C3_Present(k)})
        /\ (score.missing_required # <<>> => score.status # "GOOD")

\* an upper-case name counts as present while another archetype is missing
C3_Witness ==
    /\ Scored /\ zip.valid
    /\ \E i \in 1..Len(score.files) : score.files[i] = nIncomeUpper
    /\ \A i \in 1..Len(score.files) : score.files[i] \in {nIncomeUpper, nDeep}
    /\ score.missing_required = <<"balance_sheet">>
    /\ score.total_score >= 70

\* C4: for a file that is not a ZIP archive score_zip returns BAD, score 0,
\* the one issue "Not a valid zip archive", every other collection empty,
\* and lists, extracts and scans nothing.
C4_NotAZip ==
    (Scored /\ ~zip.valid) =>
        /\ score.status = "BAD"
        /\ score.total_score = 0
        /\ score.issues = <<"Not a valid zip archive">>
        /\ \A f \in DOMAIN score \ {"status", "total_score", "issues"} :
               score[f] = <<>>
        /\ Range(trace) \cap {"namelist", "extract to gate_scan", "scan pdfs"} = {}
        /\ pc # "raised"

C4_Witness ==
    /\ ~zip.valid
    /\ pc = "done"
    /\ status = "REJECTED"
    /\ "is_zipfile" \in Range(trace)

\* C5: route gives STANDARD_PATH exactly for status GOOD (EXCEPTION_PATH for
\* a result without status); after a gate result that is not GOOD none of
\* the later stages runs, and the run ends REJECTED with one quarantine of
\* reason "Quality gate failure".
C5_RouteShortCircuit ==
    /\ route([total_score |-> 100]) = "EXCEPTION_PATH"
    /\ routing # "None" =>
           (routing = "STANDARD_PATH" <=> score.status = "GOOD")
    /\ (Scored /\ score.status # "GOOD") =>
           /\ Range(trace) \cap LaterStages = {}
           /\ good_bank = <<>>
           /\ pc # "raised"
           /\ pc = "done" =>
                  /\ status = "REJECTED"
                  /\ Len(bad_bank) = 1
                  /\ bad_bank[1].reason = "Quality gate failure"

\* a valid archive of score 70 or more is rejected at the gate
C5_Witness ==
    /\ pc = "done"
    /\ zip.valid
    /\ score.status = "BAD"
    /\ score.total_score >= 70
    /\ status = "REJECTED"

Passes == validation # Unset /\ validation.summary.passes

\* C6: a run ends with exactly one outcome: the good bank (COMPLETED) exactly
\* when the gate is GOOD and validation passes; a GOOD gate with failed
\* validation ends REJECTED_VALIDATION with one quarantine of reason
\* "Validation failures"; never both banks.
C6_OneOutcome ==
    /\ ~(good_bank # <<>> /\ bad_bank # <<>>)
    /\ Ended =>
           /\ Len(good_bank) + Len(bad_bank) = 1
           /\ (good_bank # <<>> /\ status = "COMPLETED")
                  <=> (score.status = "GOOD" /\ Passes)
           /\ (score.status = "GOOD" /\ validation # Unset /\ ~Passes) =>
                  /\ status = "REJECTED_VALIDATION"
                  /\ bad_bank[1].reason = "Validation failures"
                  /\ bad_bank[1].reason # "Quality gate failure"

\* the text holds the label followed by a figure
C7_Figure(text, words) ==
    SearchI(Words(words) \o <<Lit(" "), Item(DOMAIN NumVal, FALSE, 1, 1, FALSE)>>,
            text)

\* every required field of the document's type is in the text with a figure
C7_PopulatedAs(r, text) ==
    /\ r # Raised
    /\ r.label \in {"income_statement", "balance_sheet"}
    /\ r.label = "income_statement" =>
           \A f \in {<<"revenue">>, <<"cogs">>, <<"operating", "expenses">>,
                      <<"net", "income">>} : C7_Figure(text, f)
    /\ r.label = "balance_sheet" =>
           \A f \in {<<"cash">>, <<"accounts", "receivable">>,
                      <<"accounts", "payable">>, <<"equity">>} : C7_Figure(text, f)

C7_Populated(path, text) == C7_PopulatedAs(classify_document(path, text), text)

\* C7: an archive with the three required names, no corrupt PDF and every
\* PDF fully populated for its type goes down STANDARD_PATH and ends
\* COMPLETED with validation passed.
C7_EndToEnd ==
    (/\ Ended /\ zip.valid
     /\ score.missing_required = <<>>
     /\ score.corrupt_pdfs = <<>>
     /\ \A i \in 1..Len(score.files) :
            IsPdf(score.files[i]) =>
                C7_Populated(score.files[i],
                             extract_text(zip.members, score.files[i])))
    => (routing = "STANDARD_PATH" /\ status = "COMPLETED" /\ Passes)

\* a document fails completeness, in the words of the claim
C8_Fails(d) ==
    \/ d.missing_fields # <<>>
    \/ d.format_errors # <<>>
    \/ d.numeric_values_found <= 5

\* C8: passes holds exactly when there is no continuity break and no document
\* fails completeness (a missing field, a format error - those the validator
\* adds included - or at most 5 numeric values); completeness_failures counts
\* the failing documents.
C8_PassesIff ==
    validation # Unset =>
        LET sm == validation.summary
            dt == validation.details
            failing == {i \in 1..Len(dt) : C8_Fails(dt[i])}
        IN /\ sm.passes <=> (sm.continuity_breaks = <<>> /\ failing = {})
           /\ sm.completeness_failures = Cardinality(failing)
           /\ \A i \in 1..Len(dt) :
                  /\ ~dt[i].has_dates => "missing dates" \in Range(dt[i].format_errors)
                  /\ (AlphaChars(pdf_texts[i].text) < 20
                      /\ dt[i].numeric_values_found < 5)
                         => "sparse content" \in Range(dt[i].format_errors)

\* two documents validated, the only failure a format error the validator added
C8_Witness ==
    /\ validation # Unset
    /\ Len(validation.details) = 2
    /\ validation.summary.completeness_failures = 1
    /\ ~validation.summary.passes
    /\ \A i \in 1..2 :
           /\ validation.details[i].missing_fields = <<>>
           /\ validation.details[i].numeric_values_found > 5
           /\ validation.details[i].format_errors \in {<<>>, <<"missing dates">>}

\* C9: validate_documents leaves the classifier's flag lists as the
\* classifier returned them.
C9_NoMutation ==
    calls > 0 => classification = returned

\* the claim's count of hits and score (in quarters) of archetype k
C10_Hits(k, path, text) ==
    LET ps == LABEL_PATTERNS[k].patterns
    IN Cardinality({p \in 1..Len(ps) : SearchI(ps[p], BaseName(path))})
       + Cardinality({p \in 1..Len(ps) : SearchI(ps[p], text)})

C10_Score(k, path, text) == Min(4, C10_Hits(k, path, text))

\* C10: each archetype scores min(1.0, 0.25 * hits); the label is the
\* archetype of highest score, the earliest in table order on a tie, and
\* unknown exactly when every score is 0; confidence is the score as a
\* percentage.
C10_BestArchetype ==
    (record # Unset /\ record # Raised) =>
        LET path == pdf_texts[1].path
            text == pdf_texts[1].text
            N == Len(LABEL_PATTERNS)
            top == CHOOSE m \in 0..4 :
                       /\ \A k \in 1..N : C10_Score(k, path, text) <= m
                       /\ m = 0 \/ \E k \in 1..N : C10_Score(k, path, text) = m
        IN /\ record.label = "unknown" <=> top = 0
           /\ record.confidence = 250 * top
           /\ top > 0 =>
                  \E k \in 1..N :
                      /\ record.label = LABEL_PATTERNS[k].label
                      /\ C10_Score(k, path, text) = top
                      /\ \A j \in 1..(k - 1) : C10_Score(j, path, text) < top

\* two archetypes tie and the earlier one is returned
C10_Witness ==
    /\ record # Unset /\ record # Raised
    /\ record.label = "balance_sheet"
    /\ C10_Score(2, pdf_texts[1].path, pdf_texts[1].text)
           = C10_Score(3, pdf_texts[1].path, pdf_texts[1].text)

\* no archetype pattern matches s
C11_NoMatchIn(s) ==
    \A k \in 1..Len(LABEL_PATTERNS) : \A p \in 1..Len(LABEL_PATTERNS[k].patterns) :
        ~SearchI(LABEL_PATTERNS[k].patterns[p], s)

\* C11 as stated: a document whose text has no pattern match is labelled
\* unknown with confidence 0.0.
C11_TextNoMatch ==
    (record # Unset /\ C11_NoMatchIn(pdf_texts[1].text)) =>
        /\ record # Raised
        /\ record.label = "unknown"
        /\ record.confidence = 0

\* C11 amended: a document with no pattern match in its text and none in its
\* file name is labelled unknown with confidence 0.0.
C11_NoMatchUnknown ==
    (/\ record # Unset
     /\ C11_NoMatchIn(pdf_texts[1].text)
     /\ C11_NoMatchIn(BaseName(pdf_texts[1].path))) =>
        /\ record # Raised
        /\ record.label = "unknown"
        /\ record.confidence = 0
        /\ record.reasons = << <<"No patterns matched">> >>

\* a text that is not empty, without a match in it or in the name
C11_Witness ==
    /\ record # Unset /\ record # Raised
    /\ pdf_texts[1].text # <<>>
    /\ C11_NoMatchIn(pdf_texts[1].text)
    /\ C11_NoMatchIn(BaseName(pdf_texts[1].path))
    /\ record.label = "unknown"

\* the matches of a document: archetype, pattern and where it matches
C12_Matches(path, text) ==
    {m \in {<<k, p, w>> : k \in 1..Len(LABEL_PATTERNS), p \in 1..3,
                         w \in {"file name", "text"}} :
        /\ m[2] <= Len(LABEL_PATTERNS[m[1]].patterns)
        /\ SearchI(LABEL_PATTERNS[m[1]].patterns[m[2]],
                   IF m[3] = "text" THEN text ELSE BaseName(path))}

\* the confidence reported for d is at least c
C12_AtLeast(d, c) ==
    classify_document(d.path, d.text) # Raised
        => classify_document(d.path, d.text).confidence >= c

\* C12: a document with the matches of another one and more has at least
\* its confidence, and no confidence is above 100.0 (1000 tenths).
C12_Monotonic ==
    (record # Unset /\ record # Raised) =>
        /\ record.confidence <= 1000
        /\ \A d \in [path : Names, text : Texts] :
               C12_Matches(pdf_texts[1].path, pdf_texts[1].text)
                   \subseteq C12_Matches(d.path, d.text)
               => C12_AtLeast(d, record.confidence)

\* one more match than the document classified raises the confidence above
\* its 25.0 or more
C12_Witness ==
    /\ record # Unset /\ record # Raised
    /\ record.confidence >= 250
    /\ \E d \in [path : Names, text : Texts] :
           /\ C12_Matches(pdf_texts[1].path, pdf_texts[1].text)
                  \subseteq C12_Matches(d.path, d.text)
           /\ Cardinality(C12_Matches(d.path, d.text))
                  = Cardinality(C12_Matches(pdf_texts[1].path, pdf_texts[1].text)) + 1
           /\ classify_document(d.path, d.text) # Raised
           /\ classify_document(d.path, d.text).confidence > record.confidence

\* the YYYY-MM tokens among the periods detected
C14_YearMonths == {p \in Range(record.periods) : Len(p) = 2}

\* C14: detect_missing_months reads the YYYY-MM tokens only and lists, for
\* every year in them, each month that no token of any year holds; 2023-01
\* and 2023-03 alone leave ten months of 2023; no YYYY-MM token gives the
\* empty list.
C14_MissingMonths ==
    (pc = "done" /\ record # Unset) =>
        /\ Range(record.missing_months) =
               {<<y, m>> : y \in {p[1] : p \in C14_YearMonths},
                           m \in (1..12) \ {p[2] : p \in C14_YearMonths}}
        /\ Len(record.missing_months) = Cardinality(Range(record.missing_months))
        /\ C14_YearMonths = {} => record.missing_months = <<>>
        /\ C14_YearMonths = {<<2023, 1>>, <<2023, 3>>} =>
               /\ Len(record.missing_months) = 10
               /\ \A i \in 1..10 : record.missing_months[i][1] = 2023

\* a month seen in 2022 only is not reported missing in 2023
C14_Witness ==
    /\ pc = "done" /\ record # Unset
    /\ C14_YearMonths = {<<2022, 1>>, <<2023, 3>>}
    /\ <<2023, 1>> \notin Range(record.missing_months)
    /\ Len(record.missing_months) = 20

\* the years referenced by a year-prefixed period in any validated document
C15_Years ==
    {p[1] : p \in {q \in UNION {Range(detect_periods(pdf_texts[i].text)) :
                                    i \in 1..Len(pdf_texts)} : Len(q) <= 2}}

\* C15: years_detected is the ascending, duplicate-free list of the years of
\* the year-prefixed periods of all documents; continuity_breaks has exactly
\* one entry, in order, for each adjacent pair of years_detected that differs
\* by more than 1 and none for the other pairs; passes is false when there is
\* such a gap.
C15_YearsAndBreaks ==
    validation # Unset =>
        LET years == validation.summary.years_detected
            breaks == validation.summary.continuity_breaks
            gaps == {i \in 1..(Len(years) - 1) : years[i + 1] - years[i] > 1}
        IN /\ Range(years) = C15_Years
           /\ \A i \in 1..(Len(years) - 1) : years[i] < years[i + 1]
           /\ Len(breaks) = Cardinality(gaps)
           /\ Range(breaks) = {<<years[i], years[i + 1]>> : i \in gaps}
           /\ \A i \in 1..(Len(breaks) - 1) : breaks[i][1] < breaks[i + 1][1]
           /\ gaps # {} => ~validation.summary.passes

\* two documents, 2023 named by both and 2021 by one of them: two years
\* detected, one break between them and the package does not pass
C15_Witness ==
    /\ validation # Unset
    /\ Len(pdf_texts) = 2
    /\ \A i \in 1..2 :
           \E p \in Range(validation.details[i].periods) :
               Len(p) <= 2 /\ p[1] = 2023
    /\ validation.summary.years_detected = <<2021, 2023>>
    /\ validation.summary.continuity_breaks = <<<<2021, 2023>>>>
    /\ ~validation.summary.passes

\* C16: no content makes classify_document raise: every call returns a
\* complete record (path, label, confidence, reasons, structured), and a
\* captured number that cannot be parsed leaves its field not found.
C16_NeverRaises ==
    record # Unset =>
        /\ record # Raised
        /\ DOMAIN record = {"path", "label", "confidence", "reasons", "structured"}

\* the dict d with its documents processed in the order f
C17_Reordered(d, f) == [i \in 1..Len(d) |-> d[f[i]]]

\* C17: each detail carries the path of its document and the flags the
\* classifier filed under that path, and the summary is the same for every
\* order in which the same documents are processed.
C17_OrderIndependent ==
    calls = 1 =>
        /\ Len(validation.details) = Len(pdf_texts)
        /\ \A i \in 1..Len(pdf_texts) :
               /\ validation.details[i].path = pdf_texts[i].path
               /\ validation.details[i].periods = detect_periods(pdf_texts[i].text)
               /\ \A j \in 1..Len(returned.documents) :
                      returned.documents[j].path = pdf_texts[i].path =>
                          validation.details[i].missing_fields =
                              returned.documents[j].structured.flags.missing_fields
        /\ \A f \in Permutations(1..Len(pdf_texts)) :
               validate_documents(C17_Reordered(pdf_texts, f), returned).report.summary
                   = validation.summary

\* two documents with different missing months and different flags, validated
\* with the classifier's report
C17_Witness ==
    /\ calls = 1
    /\ Len(pdf_texts) = 2
    /\ returned # NoClassification
    /\ validation.details[1].missing_months # validation.details[2].missing_months
    /\ validation.details[1].missing_fields # validation.details[2].missing_fields
    /\ validation.summary.missing_months # <<>>

\* a line of a capitalization table as the claim reads it: a name, a
\* percentage of at most three digits and a number of shares
C18_IsRow(line) ==
    /\ Len(line) >= 6
    /\ IsDigits(line[Len(line)]) /\ line[Len(line) - 1] = " "
    /\ line[Len(line) - 2] = "%"
    /\ IsDigits(line[Len(line) - 3]) /\ NumVal[line[Len(line) - 3]] < 1000
    /\ line[Len(line) - 4] = " "
    /\ \A i \in 1..(Len(line) - 5) : IsWord(line[i]) \/ line[i] = " "

\* the ownership percentages of the rows of a text, in tenths
C18_Percents(text) ==
    [i \in 1..Len(SelectSeq(SplitLines(text), C18_IsRow)) |->
        10 * NumVal[SelectSeq(SplitLines(text), C18_IsRow)[i][
                        Len(SelectSeq(SplitLines(text), C18_IsRow)[i]) - 3]]]

\* C18: for a cap table with at least one row, ownership_total is the sum of
\* the rows' percentages and the ownership format error is produced exactly
\* when the total is more than 0.5 away from 100 (rows summing to 95% give
\* the error); with no row the total is null, there is no such error and
\* shareholder, ownership_percent and shares are missing.
C18_OwnershipTotal ==
    (record # Unset /\ record # Raised /\ record.label = "cap_table") =>
        LET pcts == C18_Percents(pdf_texts[1].text)
            total == SumSeq(pcts)
            flags == record.structured.flags
            wrong == "ownership total not equal to 100%" \in Range(flags.format_errors)
        IN IF pcts # <<>>
           THEN /\ record.structured.fields.ownership_total = <<total>>
                /\ wrong <=> (total - 1000 > 5 \/ 1000 - total > 5)
           ELSE /\ record.structured.fields.ownership_total = <<>>
                /\ ~wrong
                /\ flags.missing_fields
                       = <<"shareholder", "ownership_percent", "shares">>

\* where the text holds the words followed by a figure
C19_At(text, words) ==
    {i \in 1..Len(text) :
        /\ i + Len(words) <= Len(text)
        /\ SubSeq(text, i, i + Len(words) - 1) = words
        /\ IsDigits(text[i + Len(words)])}

\* the figure that follows the first such place
C19_Figure(text, words) ==
    NumVal[text[Len(words) + CHOOSE i \in C19_At(text, words) :
                                  \A j \in C19_At(text, words) : i <= j]]

\* C19: for a balance sheet holding a total-assets figure and a
\* total-liabilities and an equity figure, the non_balancing format error is
\* produced exactly when total assets and liabilities plus equity differ by
\* more than 1 (500 against 300 plus 300 yields the error).
C19_NonBalancing ==
    (/\ record # Unset /\ record # Raised /\ record.label = "balance_sheet"
     /\ C19_At(pdf_texts[1].text, <<"total", " ", "assets", " ">>) # {}
     /\ C19_At(pdf_texts[1].text, <<"total", " ", "liabilities", " ">>) # {}
     /\ C19_At(pdf_texts[1].text, <<"equity", " ">>) # {})
    => LET assets == C19_Figure(pdf_texts[1].text, <<"total", " ", "assets", " ">>)
           liabilities ==
               C19_Figure(pdf_texts[1].text, <<"total", " ", "liabilities", " ">>)
           equity == C19_Figure(pdf_texts[1].text, <<"equity", " ">>)
       IN ("non_balancing: assets != liabilities + equity"
               \in Range(record.structured.flags.format_errors))
          <=> (assets - (liabilities + equity) > 1
               \/ (liabilities + equity) - assets > 1)

\* the classifier's records that have no extractor for their label
C20_Untyped ==
    {j \in 1..Len(returned.documents) :
        returned.documents[j].label \in {"cash_flow", "unknown"}}

\* C20: in every record of the classifier, document_type is the label when
\* the label is one of the six extracted types; for cash_flow and unknown
\* document_type is unknown, fields is empty and format_errors is exactly
\* ["unknown document type"], and validation counts each such document as a
\* completeness failure.
C20_DocumentType ==
    /\ \A j \in 1..Len(returned.documents) :
           /\ returned.documents[j].label
                  \in {"income_statement", "balance_sheet", "bank_statement",
                       "ar_aging", "cap_table", "contract"}
                  => returned.documents[j].structured.document_type
                         = returned.documents[j].label
           /\ j \in C20_Untyped =>
                  /\ returned.documents[j].structured.document_type = "unknown"
                  /\ returned.documents[j].structured.fields = <<>>
                  /\ returned.documents[j].structured.flags.format_errors
                         = <<"unknown document type">>
    /\ calls > 0 =>
           /\ \A j \in C20_Untyped :
                  \E i \in 1..Len(validation.details) :
                      /\ validation.details[i].path = returned.documents[j].path
                      /\ "unknown document type"
                             \in Range(validation.details[i].format_errors)
           /\ validation.summary.completeness_failures >= Cardinality(C20_Untyped)
           /\ C20_Untyped # {} => ~validation.summary.passes

\* a cash_flow document whose text has dates and more than five numbers, and
\* a document of an extracted type beside it, both validated
C20_Witness ==
    /\ calls > 0
    /\ Len(returned.documents) = 2
    /\ \E j \in C20_Untyped :
           /\ returned.documents[j].label = "cash_flow"
           /\ \E i \in 1..2 :
                  /\ validation.details[i].path = returned.documents[j].path
                  /\ validation.details[i].has_dates
                  /\ validation.details[i].passes_numeric_presence
    /\ \E j \in 1..2 : returned.documents[j].label = "balance_sheet"

\* C21: folder_issues and naming_issues have at most 2 entries each, so an
\* archive with no missing required document, no corrupt PDF, no sparse PDF
\* and no missing-terms issue loses at most 30 points and has status GOOD,
\* whatever its folders and names.
C21_CleanIsGood ==
    (score # Unset /\ zip.valid) =>
        /\ Len(score.folder_issues) <= 2
        /\ Len(score.inconsistent_naming) <= 2
        /\ (/\ score.missing_required = <<>>
            /\ score.corrupt_pdfs = <<>>
            /\ score.sparse_pdfs = <<>>
            /\ score.missing_terms = <<>>)
           => /\ score.total_score
                     = 100 - 10 * Len(score.folder_issues)
                           - 5 * Len(score.inconsistent_naming)
              /\ score.total_score >= 70
              /\ score.status = "GOOD"

\* an archive with both folder issues and both naming issues and nothing
\* else: 70 points and GOOD
C21_Witness ==
    /\ score # Unset /\ zip.valid
    /\ Len(score.folder_issues) = 2
    /\ Len(score.inconsistent_naming) = 2
    /\ score.missing_required = <<>>
    /\ score.corrupt_pdfs = <<>>
    /\ score.sparse_pdfs = <<>>
    /\ score.missing_terms = <<>>
    /\ score.total_score = 70
    /\ score.status = "GOOD"

\* the archive holds no PDF member
C22_NoPdf ==
    \A i \in 1..Len(MemberNames(zip.members)) : ~IsPdf(MemberNames(zip.members)[i])

\* C22: validate_documents on an empty mapping reports 0 documents validated,
\* 0 completeness failures, no continuity break and passes true; so a package
\* without PDF members that gets through the gate ends COMPLETED in the good
\* bank, no document having been validated.
C22_EmptyPasses ==
    /\ (validation # Unset /\ pdf_texts = <<>>) =>
           /\ validation.summary.documents_validated = 0
           /\ validation.summary.completeness_failures = 0
           /\ validation.summary.continuity_breaks = <<>>
           /\ validation.summary.passes
           /\ validation.details = <<>>
    /\ (Ended /\ routing = "STANDARD_PATH" /\ C22_NoPdf) =>
           /\ pc = "done"
           /\ status = "COMPLETED"
           /\ Len(good_bank) = 1
           /\ bad_bank = <<>>
           /\ pdf_texts = <<>>
           /\ validation.summary.documents_validated = 0

\* a run on two members, neither a PDF, that ended in the good bank
C22_Witness ==
    /\ pc = "done"
    /\ Len(MemberNames(zip.members)) = 2
    /\ C22_NoPdf
    /\ score.status = "GOOD"
    /\ validation # Unset
    /\ validation.summary.documents_validated = 0
    /\ status = "COMPLETED"
    /\ Len(good_bank) = 1

====
